---- MODULE Spec2Model ----
(***************************************************************************)
(* A model of the MMS PDU decoder of psanford/gsm (package mms) and of its *)
(* WAP push wrapper (package wap).                                         *)
(*                                                                         *)
(* A byte is an integer 0..255, a buffer a sequence of bytes, a cursor the *)
(* number of bytes already consumed from its buffer (so the next byte of   *)
(* cursor pos over buf is buf[pos+1]).  A Go string is the sequence of its *)
(* bytes.  A uint32 is the pair <<hi, lo>> of its 16-bit halves, so that   *)
(* shifts keep the 32-bit width of the source.                             *)
(***************************************************************************)
EXTENDS Integers, Sequences, FiniteSets, TLC

\* ------------------------------------------------------------ bounds
\* header fields drawn per input
MaxFields == 2
\* body parts drawn per input
MaxParts == 2
\* length of an arbitrary byte string handed to Unmarshal
MaxFuzzLen == 4
\* bytes after the three leading bytes of a push packet
MaxPushTail == 5
\* bytes of a text drawn for a text value
MaxTextLen == 2
\* parameters drawn for a parameter block
MaxParams == 3

\* ------------------------------------------------------------ helpers
Min(a, b) == IF a < b THEN a ELSE b

Max(a, b) == IF a > b THEN a ELSE b

RECURSIVE Flatten(_)
Flatten(ss) == IF ss = <<>> THEN <<>> ELSE Head(ss) \o Flatten(Tail(ss))

SeqsUpTo(S, n) == UNION {[1..k -> S] : k \in 0..n}

\* ------------------------------------------------------------ uint32
\* uint32 as <<hi, lo>>, value hi * 2^16 + lo
U32(n) == <<n \div 65536, n % 65536>>

\* (u << k) | b in 32 bits, for m = 2^k (128 or 256) and b < m
ShlOr(u, m, b) ==
  LET w == u[2] * m
  IN  <<(u[1] * m + (w \div 65536)) % 65536, (w % 65536) + b>>

\* i < int(u) for a small int i
LessThanU32(i, u) == u[1] > 0 \/ i < u[2]

\* ------------------------------------------------------------ values
\* a decoded value: t names its Go type or symbolic text, n a number, b bytes
Val(t, n, b) == [t |-> t, n |-> n, b |-> b]

\* a Go string holding the bytes b
Txt(b) == Val("string", 0, b)

\* the result of one decoding operation: value, cursor afterwards, error
Ok(v, pos) == [ok |-> TRUE, v |-> v, pos |-> pos, e |-> ""]

Err(e, pos) == [ok |-> FALSE, v |-> Txt(<<>>), pos |-> pos, e |-> e]

\* ------------------------------------------------------------ bufio.Reader
\* size of the buffer of bufio.NewReader
defaultBufSize == 4096

\* d.r.Peek(1)
Peek(buf, pos) ==
  IF pos < Len(buf) THEN Ok(buf[pos + 1], pos) ELSE Err("EOF", pos)

\* d.r.ReadByte()
ReadByte(buf, pos) ==
  IF pos < Len(buf) THEN Ok(buf[pos + 1], pos + 1) ELSE Err("EOF", pos)

\* d.r.ReadBytes(0): the bytes up to and including the first zero byte
ReadBytes(buf, pos) ==
  LET zs == {j \in (pos + 1)..Len(buf) : buf[j] = 0}
  IN  IF zs = {} THEN Err("EOF", Len(buf))
      ELSE LET j == CHOOSE z \in zs : \A y \in zs : z <= y
           IN  Ok(SubSeq(buf, pos + 1, j), j)

\* buf := make([]byte, n); io.ReadFull(d.r, buf), n a uint32
ReadFull(buf, pos, n) ==
  IF n = <<0, 0>> THEN Ok(<<>>, pos)
  ELSE IF n[1] = 0 /\ pos + n[2] <= Len(buf)
       THEN Ok(SubSeq(buf, pos + 1, pos + n[2]), pos + n[2])
       ELSE IF pos = Len(buf) THEN Err("EOF", pos)
            ELSE Err("unexpected EOF", Len(buf))

\* d.offset(): the position of the bytes.Reader under the bufio.Reader, which
\* reads ahead a buffer at a time once the first byte is asked for
offset(buf, pos) ==
  Min(Len(buf), defaultBufSize * Max(1, (pos + defaultBufSize - 1) \div defaultBufSize))

\* ------------------------------------------------------------ primitives
maxIter == 5

RECURSIVE VarUintLoop(_, _, _, _, _)
VarUintLoop(buf, pos, i, result, more) ==
  IF i < maxIter /\ more
  THEN LET r == ReadByte(buf, pos)
       IN  IF ~r.ok THEN Err(r.e, r.pos)
           ELSE VarUintLoop(buf, r.pos, i + 1, ShlOr(result, 128, r.v % 128),
                            r.v >= 128)
  ELSE IF more THEN Err("invalid var uint", pos) ELSE Ok(result, pos)

decodeVarUint(buf, pos) == VarUintLoop(buf, pos, 0, <<0, 0>>, TRUE)

decodeValueLength(buf, pos) ==
  LET r == ReadByte(buf, pos)
  IN  IF ~r.ok THEN Err(r.e, r.pos)
      ELSE IF r.v < 31 THEN Ok(U32(r.v), r.pos)
      ELSE IF r.v = 31 THEN decodeVarUint(buf, r.pos)
      ELSE Err("invalid value length", r.pos)

decodeShortInt(buf, pos) ==
  LET r == ReadByte(buf, pos)
  IN  IF ~r.ok THEN Err(r.e, r.pos)
      ELSE IF r.v < 128 THEN Err("invalid short int", r.pos)
      ELSE Ok(r.v % 128, r.pos)

decodeBoolean(buf, pos) ==
  LET r == ReadByte(buf, pos)
  IN  IF ~r.ok THEN Err(r.e, r.pos)
      ELSE IF r.v = 128 THEN Ok(Val("bool", 1, <<>>), r.pos)
      ELSE IF r.v = 129 THEN Ok(Val("bool", 0, <<>>), r.pos)
      ELSE Err("Invalid boolean value", r.pos)

RECURSIVE LongIntLoop(_, _, _, _)
LongIntLoop(buf, pos, left, u) ==
  IF left = 0 THEN Ok(u, pos)
  ELSE LET r == ReadByte(buf, pos)
       IN  IF ~r.ok THEN Err(r.e, r.pos)
           ELSE LongIntLoop(buf, r.pos, left - 1, ShlOr(u, 256, r.v))

decodeLongInt(buf, pos) ==
  LET r == ReadByte(buf, pos)
  IN  IF ~r.ok THEN Err(r.e, r.pos)
      ELSE IF r.v > 30 THEN Err("invalid long int", r.pos)
      ELSE IF r.v > 8 THEN Err("unsupported long int", r.pos)
      ELSE LongIntLoop(buf, r.pos, r.v, <<0, 0>>)

decodeTextEnc(buf, pos) ==
  LET p == Peek(buf, pos)
  IN  IF ~p.ok THEN Err(p.e, pos)
      ELSE LET start == IF p.v > 127 THEN pos + 1 ELSE pos
               t == ReadBytes(buf, start)
           IN  IF ~t.ok THEN Err(t.e, t.pos)
               ELSE IF Len(t.v) <= 1 THEN Ok(Txt(<<>>), t.pos)
               ELSE Ok(Txt(SubSeq(t.v, 1, Len(t.v) - 1)), t.pos)

\* io.ReadAll(rr) on the bytes.Reader under an already used bufio.Reader
ReadAllUnderlying(buf, pos) == SubSeq(buf, offset(buf, pos) + 1, Len(buf))

\* decodeEncodedString, lines 411-446: the value read, text its bytes
EncodedStringText(f) ==
  IF ~f.ok THEN Err(f.e, f.pos)
  ELSE IF Len(f.v) < 1 THEN Err("invalid empty encoded string", f.pos)
  ELSE IF f.v[1] = 127 THEN Ok(Txt(Tail(f.v)), f.pos)
  ELSE IF f.v[1] > 32
  THEN [decodeTextEnc(f.v, 0) EXCEPT !.pos = f.pos]
  ELSE LET c == decodeLongInt(f.v, 0)
           text == ReadAllUnderlying(f.v, c.pos)
       IN  IF ~c.ok THEN Err(c.e, f.pos)
           ELSE IF Len(text) <= 1 THEN Ok(Txt(<<>>), f.pos)
           ELSE Ok(Txt(SubSeq(text, 1, Len(text) - 1)), f.pos)

\* decodeEncodedString, lines 406-414: the value length l is decoded
EncodedStringValue(buf, l) ==
  IF ~l.ok THEN Err(l.e, l.pos) ELSE EncodedStringText(ReadFull(buf, l.pos, l.v))

decodeEncodedString(buf, pos) ==
  LET p == Peek(buf, pos)
  IN  IF ~p.ok THEN Err(p.e, pos)
      ELSE IF p.v < 32 THEN EncodedStringValue(buf, decodeValueLength(buf, pos))
      ELSE LET t == ReadBytes(buf, pos)
           IN  IF ~t.ok THEN Err(t.e, t.pos)
               ELSE IF Len(t.v) <= 1 THEN Ok(Txt(<<>>), t.pos)
               ELSE Ok(Txt(<<t.v[Len(t.v)]>>), t.pos)

\* decodeFrom, lines 835-855: the value f is read
FromToken(f) ==
  IF ~f.ok THEN Err(f.e, f.pos)
  ELSE IF f.v[1] = 128 THEN [decodeEncodedString(Tail(f.v), 0) EXCEPT !.pos = f.pos]
  ELSE IF f.v[1] = 129 THEN Ok(Val("<insert-address-token>", 0, <<>>), f.pos)
  ELSE Err("invalid from field token state", f.pos)

\* decodeFrom, lines 825-834: the value length l is decoded
FromValue(buf, l) ==
  IF ~l.ok THEN Err(l.e, l.pos)
  ELSE IF l.v = <<0, 0>> THEN Err("invalid from field", l.pos)
  ELSE FromToken(ReadFull(buf, l.pos, l.v))

decodeFrom(buf, pos) == FromValue(buf, decodeValueLength(buf, pos))

decodeMessageClass(buf, pos) ==
  LET p == Peek(buf, pos)
  IN  IF ~p.ok THEN Err(p.e, pos)
      ELSE IF p.v < 127
      THEN LET t == ReadBytes(buf, pos)
           IN  IF ~t.ok THEN Err(t.e, t.pos)
               ELSE IF Len(t.v) < 2 THEN Ok(Txt(<<>>), t.pos)
               ELSE Ok(Txt(SubSeq(t.v, 1, Len(t.v) - 1)), t.pos)
      ELSE CASE p.v = 128 -> Ok(Val("personal", 0, <<>>), pos + 1)
             [] p.v = 129 -> Ok(Val("advertisement", 0, <<>>), pos + 1)
             [] p.v = 130 -> Ok(Val("informational", 0, <<>>), pos + 1)
             [] p.v = 131 -> Ok(Val("auto", 0, <<>>), pos + 1)
             [] OTHER -> Ok(Val("UnknownMessageClass", p.v, <<>>), pos + 1)

decodeDate(buf, pos) ==
  LET i == decodeLongInt(buf, pos)
  IN  IF ~i.ok THEN Err(i.e, i.pos) ELSE Ok(Val("time", 0, i.v), i.pos)

\* decodeRelativeOrAbsoluteTime, lines 612-630: the long integer val after mode
TimeOfMode(mode, val) ==
  IF ~val.ok THEN Err(val.e, val.pos)
  ELSE IF mode.v = 128 THEN Ok(Val("Absolute", 0, val.v), val.pos)
  ELSE IF mode.v = 129 THEN Ok(Val("Relative", 0, val.v), val.pos)
  ELSE Err("invalid delivery_time mode", val.pos)

\* decodeRelativeOrAbsoluteTime, lines 608-611: the mode byte after the value length
TimeMode(buf, mode) ==
  IF ~mode.ok THEN Err(mode.e, mode.pos)
  ELSE TimeOfMode(mode, decodeLongInt(buf, mode.pos))

\* line 601 drops both results of decodeValueLength: only the cursor moves
decodeRelativeOrAbsoluteTime(buf, pos) ==
  TimeMode(buf, ReadByte(buf, decodeValueLength(buf, pos).pos))

\* the static table of well-known content types, by index
contentTypes ==
  <<"*/*", "text/*", "text/html", "text/plain", "text/x-hdml", "text/x-ttml",
    "text/x-vCalendar", "text/x-vCard">>

decodeConstrainedMedia(buf, pos) ==
  LET p == Peek(buf, pos)
  IN  IF ~p.ok THEN Err(p.e, pos)
      ELSE IF p.v < 127
      THEN LET t == ReadBytes(buf, pos)
           IN  IF ~t.ok THEN Err(t.e, t.pos)
               ELSE IF Len(t.v) <= 1 THEN Ok(Txt(<<>>), t.pos)
               ELSE Ok(Txt(<<t.v[Len(t.v)]>>), t.pos)
      ELSE LET b == decodeShortInt(buf, pos)
           IN  IF ~b.ok THEN Err(b.e, b.pos)
               ELSE IF b.v >= Len(contentTypes)
               THEN Err("unknown short content type", b.pos)
               ELSE Ok(Val(contentTypes[b.v + 1], b.v, <<>>), b.pos)

decodeMessageType(buf, pos) ==
  LET r == ReadByte(buf, pos)
  IN  IF ~r.ok THEN Err(r.e, r.pos)
      ELSE IF r.v < 128 \/ r.v > 134 THEN Ok(Val("HeaderMessageType", 0, <<>>), r.pos)
      ELSE Ok(Val("HeaderMessageType", r.v, <<>>), r.pos)

decodeVersion(buf, pos) ==
  LET b == decodeShortInt(buf, pos)
  IN  IF ~b.ok THEN Err(b.e, b.pos)
      ELSE LET major == (b.v % 128) \div 16
               minor == IF b.v % 16 = 15 THEN 0 ELSE b.v % 16
           IN  Ok(Val("version", 0, <<major, minor>>), b.pos)

decodePriority(buf, pos) ==
  LET r == ReadByte(buf, pos)
  IN  IF ~r.ok THEN Err(r.e, r.pos) ELSE Ok(Val("HeaderPriority", r.v, <<>>), r.pos)

decodeResponseStatus(buf, pos) ==
  LET r == ReadByte(buf, pos)
  IN  IF ~r.ok THEN Err(r.e, r.pos)
      ELSE Ok(Val("HeaderResponseStatus", r.v, <<>>), r.pos)

decodeSenderVisibility(buf, pos) ==
  LET r == ReadByte(buf, pos)
  IN  IF ~r.ok THEN Err(r.e, r.pos)
      ELSE Ok(Val("HederSenderVisibility", r.v, <<>>), r.pos)

decodeStatus(buf, pos) ==
  LET r == ReadByte(buf, pos)
  IN  IF ~r.ok THEN Err(r.e, r.pos) ELSE Ok(Val("HeaderStatus", r.v, <<>>), r.pos)

decodeFieldType(buf, pos) ==
  LET p == Peek(buf, pos)
  IN  IF ~p.ok THEN Err(p.e, pos)
      ELSE IF p.v < 128 THEN Err("invalid short int", pos)
      ELSE Ok(p.v % 128, pos + 1)

\* ------------------------------------------------------------ maps
\* a Go map as the set of its [k, v] entries
MapPut(m, k, v) == {e \in m : e.k # k} \cup {[k |-> k, v |-> v]}

MapHas(m, k) == \E e \in m : e.k = k

\* m[k], the empty string when k is missing
MapGet(m, k) ==
  IF MapHas(m, k) THEN (CHOOSE e \in m : e.k = k).v ELSE Txt(<<>>)

\* ------------------------------------------------------------ enumerations
Bcc == 1
Cc == 2
ContentLocation == 3
ContentType == 4
Date == 5
DeliveryReport == 6
DeliveryTime == 7
Expiry == 8
From == 9
MessageClass == 10
MessageID == 11
MessageType == 12
MMSVersion == 13
MessageSize == 14
Priority == 15
ReadReply == 16
ReportAllowed == 17
ResponseStatus == 18
ResponseText == 19
SenderVisibility == 20
StatusField == 21
Subject == 22
To == 23
TransactionID == 24
RetrieveStatus == 25
RetrieveText == 32
ReadStatus == 33
ReplayCharging == 34
ReplayChargingDeadline == 35
ReplayChargingID == 36
ReplayChargingSize == 37

CharsetParam == 129
TypeParam == 131
DepNameParam == 133
CtMrTypeParam == 137
DepStartParam == 138
NameParam == 151
FilenameParam == 152
StartParam == 153

ContentLocationPartHeader == 142
ContentIDPartHeader == 192
DepContentDispositionPartHeader == 174
ContentDispositionPartHeader == 197

\* PartHeaderField.String() for the codes decodePartHeaders stores
PartHeaderFieldString(b) ==
  CASE b = ContentLocationPartHeader -> Val("Content-Location", 0, <<>>)
    [] b = ContentIDPartHeader -> Val("Content-ID", 0, <<>>)
    [] b = DepContentDispositionPartHeader -> Val("Dep-Content-Disposition", 0, <<>>)
    [] b = ContentDispositionPartHeader -> Val("Content-Disposition", 0, <<>>)
    [] OTHER -> Val("UnkownPartHeaderField", b, <<>>)

PartDispositionTypeString(b) ==
  CASE b = 128 -> Val("FormDataDisposition", 0, <<>>)
    [] b = 129 -> Val("AttachmentDisposition", 0, <<>>)
    [] b = 130 -> Val("InlineDisposition", 0, <<>>)
    [] OTHER -> Val("UnkownPartDispositionType", b, <<>>)

\* ------------------------------------------------------------ content type
\* the outcome of one iteration of a decoding loop
Cont(pos, out) == [st |-> "cont", pos |-> pos, out |-> out, e |-> ""]

\* Break taken for Cont: the loop goes on at the end of the input
BreakMissed(pos, out) == [st |-> "cont", pos |-> pos, out |-> out, e |-> ""]

Break(pos, out) == [st |-> "break", pos |-> pos, out |-> out, e |-> ""]

Abort(e, pos, out) == [st |-> "err", pos |-> pos, out |-> out, e |-> e]

\* one iteration of the loop of decodeContentTypeParams
ParamIter(buf, pos, out) ==
  LET r == ReadByte(buf, pos)
  IN  IF ~r.ok THEN Break(pos, out)
      ELSE CASE r.v \in {TypeParam, CtMrTypeParam} ->
                  LET p == Peek(buf, r.pos)
                  IN  IF ~p.ok THEN Abort(p.e, r.pos, out)
                      ELSE IF p.v > 127
                      THEN LET idx == decodeShortInt(buf, r.pos)
                           IN  IF ~idx.ok THEN Abort(idx.e, idx.pos, out)
                               ELSE IF idx.v < Len(contentTypes)
                               THEN Cont(idx.pos,
                                         MapPut(out, TypeParam,
                                                Val(contentTypes[idx.v + 1], idx.v, <<>>)))
                               ELSE Cont(idx.pos, out)
                      ELSE LET text == decodeTextEnc(buf, r.pos)
                           IN  IF ~text.ok THEN Abort(text.e, text.pos, out)
                               ELSE Cont(text.pos, MapPut(out, TypeParam, text.v))
             [] r.v \in {StartParam, DepStartParam} ->
                  LET text == decodeTextEnc(buf, r.pos)
                  IN  IF ~text.ok THEN Abort(text.e, text.pos, out)
                      ELSE Cont(text.pos, MapPut(out, StartParam, text.v))
             [] r.v = CharsetParam ->
                  LET p == Peek(buf, r.pos)
                  IN  IF ~p.ok THEN Abort(p.e, r.pos, out)
                      ELSE IF p.v < 127
                      THEN LET text == ReadBytes(buf, r.pos)
                           IN  IF ~text.ok THEN Abort(text.e, text.pos, out)
                               ELSE IF Len(text.v) <= 1 THEN Cont(text.pos, out)
                               ELSE Cont(text.pos,
                                         MapPut(out, CharsetParam,
                                                Txt(<<text.v[Len(text.v)]>>)))
                      ELSE LET b == decodeShortInt(buf, r.pos)
                           IN  IF ~b.ok THEN Abort(b.e, b.pos, out)
                               ELSE IF b.v < Len(contentTypes)
                               THEN Cont(b.pos,
                                         MapPut(out, CharsetParam,
                                                Val(contentTypes[b.v + 1], b.v, <<>>)))
                               ELSE Cont(b.pos, out)
             [] r.v \in {NameParam, DepNameParam} ->
                  LET name == decodeTextEnc(buf, r.pos)
                  IN  IF ~name.ok THEN Abort(name.e, name.pos, out)
                      ELSE Cont(name.pos, MapPut(out, NameParam, name.v))
             [] OTHER -> Cont(r.pos, out)

\* decodeContentTypeParams run to its end: the loop goes on after iteration it
RECURSIVE decodeContentTypeParams(_, _, _)
ParamsLoop(buf, it) ==
  CASE it.st = "cont" -> decodeContentTypeParams(buf, it.pos, it.out)
    [] it.st = "break" -> Ok(it.out, it.pos)
    [] OTHER -> Err(it.e, it.pos)

decodeContentTypeParams(buf, pos, out) == ParamsLoop(buf, ParamIter(buf, pos, out))

\* what decodeContentTypeValue has when it calls decodeContentTypeParams: the
\* content type ct, the cursor pos afterwards and, in the general form, the
\* sub-buffer sub whose parameters start at spos
NoContentType(e, pos) ==
  [ok |-> FALSE, e |-> e, pos |-> pos, general |-> FALSE, ct |-> Txt(<<>>),
   sub |-> <<>>, spos |-> 0]

\* Content-general-form: the media type cm at the head of the value f
GeneralMedia(f, cm) ==
  IF ~cm.ok THEN NoContentType(cm.e, f.pos)
  ELSE [ok |-> TRUE, e |-> "", pos |-> f.pos, general |-> TRUE, ct |-> cm.v,
        sub |-> f.v, spos |-> cm.pos]

GeneralValue(f) ==
  IF ~f.ok THEN NoContentType(f.e, f.pos)
  ELSE GeneralMedia(f, decodeConstrainedMedia(f.v, 0))

GeneralForm(buf, l) ==
  IF ~l.ok THEN NoContentType(l.e, l.pos)
  ELSE GeneralValue(ReadFull(buf, l.pos, l.v))

\* Constrained-media: cm is the whole value
ConstrainedForm(cm) ==
  IF ~cm.ok THEN NoContentType(cm.e, cm.pos)
  ELSE [ok |-> TRUE, e |-> "", pos |-> cm.pos, general |-> FALSE, ct |-> cm.v,
        sub |-> <<>>, spos |-> 0]

ContentTypeHead(buf, pos) ==
  LET p == Peek(buf, pos)
  IN  IF ~p.ok THEN NoContentType(p.e, pos)
      ELSE IF p.v < 32 THEN GeneralForm(buf, decodeValueLength(buf, pos))
      ELSE ConstrainedForm(decodeConstrainedMedia(buf, pos))

\* ------------------------------------------------------------ part headers
\* the state hs of the loop of decodePartHeaders: fileName and resp
\* the Content-Disposition case once its parameters are decoded
DispositionParams(hs, name, f, disp, params) ==
  IF ~params.ok THEN Abort("parse header part err", f.pos, hs)
  ELSE Cont(f.pos, [fileName |-> MapGet(params.v, FilenameParam),
                    resp |-> MapPut(hs.resp, name, disp)])

\* the Content-Disposition case once its value f is read
DispositionValue(hs, name, f) ==
  LET tp == Peek(f.v, 0)
      txt == decodeTextEnc(f.v, 0)
  IN  IF ~f.ok THEN Abort("parse header part err", f.pos, hs)
      ELSE IF ~tp.ok THEN Abort("parse header part err", f.pos, hs)
      ELSE IF tp.v > 127
      THEN DispositionParams(hs, name, f, PartDispositionTypeString(tp.v),
                             decodeContentTypeParams(f.v, 1, {}))
      ELSE IF ~txt.ok THEN Abort("parse header part err", f.pos, hs)
      ELSE DispositionParams(hs, name, f, txt.v,
                             decodeContentTypeParams(f.v, txt.pos, {}))

\* the Content-Disposition case once its value length l is decoded
DispositionLength(buf, hs, name, l) ==
  IF ~l.ok THEN Abort("parse header part err", l.pos, hs)
  ELSE DispositionValue(hs, name, ReadFull(buf, l.pos, l.v))

\* a header given by name: the value after the name
NamedHeader(buf, hs, name) ==
  LET val == decodeTextEnc(buf, name.pos)
  IN  IF ~name.ok THEN Abort(name.e, name.pos, hs)
      ELSE IF ~val.ok THEN Abort(val.e, val.pos, hs)
      ELSE Cont(val.pos, [hs EXCEPT !.resp = MapPut(@, name.v, val.v)])

\* one iteration of the loop of decodePartHeaders
PartHeaderIter(buf, pos, hs) ==
  LET p == Peek(buf, pos)
  IN  IF ~p.ok THEN Break(pos, hs)
      ELSE IF p.v > 127
      THEN CASE p.v \in {ContentLocationPartHeader, ContentIDPartHeader} ->
                  LET txt == decodeTextEnc(buf, pos)
                  IN  IF ~txt.ok THEN Abort("parse header part err", txt.pos, hs)
                      ELSE Cont(txt.pos,
                                [hs EXCEPT !.resp =
                                   MapPut(@, PartHeaderFieldString(p.v), txt.v)])
             [] p.v \in {ContentDispositionPartHeader, DepContentDispositionPartHeader} ->
                  DispositionLength(buf, hs, PartHeaderFieldString(p.v),
                                    decodeValueLength(buf, pos))
             [] OTHER -> Abort("parse header part err: unknown header", pos, hs)
      ELSE NamedHeader(buf, hs, decodeTextEnc(buf, pos))

\* part.Header after lines 96-111: the parameters of the content type under
\* their header names
FoldParams(params) ==
  LET name(k) == CASE k = TypeParam -> "Content-Type"
                   [] k = NameParam -> "Name"
                   [] k = CharsetParam -> "Character-Set"
                   [] k = StartParam -> "Start"
                   [] OTHER -> ""
  IN  {[k |-> Val(name(e.k), 0, <<>>), v |-> e.v] :
         e \in {x \in params : name(x.k) # ""}}

\* for k, v := range headers { part.Header[k] = v }
MergeHeaders(h, resp) == {e \in h : ~MapHas(resp, e.k)} \cup resp

\* ------------------------------------------------------------ header fields
\* the case of the switch of decodeHeader that field f takes
HeaderCase(f) ==
  CASE f \in {Bcc, Cc, ResponseText, Subject, To} -> "EncodedString"
    [] f = From -> "From"
    [] f \in {DeliveryReport, ReadReply, ReportAllowed} -> "Boolean"
    [] f = ContentType -> "ContentType"
    [] f = Date -> "Date"
    [] f \in {DeliveryTime, Expiry} -> "RelativeOrAbsoluteTime"
    [] f = MessageSize -> "LongInt"
    [] f = MessageClass -> "MessageClass"
    [] f \in {MessageID, ContentLocation, TransactionID} -> "TextEnc"
    [] f = MessageType -> "MessageType"
    [] f = MMSVersion -> "Version"
    [] f = Priority -> "Priority"
    [] f = ResponseStatus -> "ResponseStatus"
    [] f = SenderVisibility -> "SenderVisibility"
    [] f = StatusField -> "Status"
    [] f = RetrieveStatus -> "RetrieveStatus"
    [] OTHER -> "default"

\* the decoder a case of the switch calls, for the cases that store a value
DecodeFieldValue(case, buf, pos) ==
  CASE case = "EncodedString" -> decodeEncodedString(buf, pos)
    [] case = "From" -> decodeFrom(buf, pos)
    [] case = "Boolean" -> decodeBoolean(buf, pos)
    [] case = "Date" -> decodeDate(buf, pos)
    [] case = "RelativeOrAbsoluteTime" -> decodeRelativeOrAbsoluteTime(buf, pos)
    [] case = "LongInt" ->
         LET r == decodeLongInt(buf, pos)
         IN  IF r.ok THEN Ok(Val("HeaderUint", 0, r.v), r.pos) ELSE r
    [] case = "MessageClass" -> decodeMessageClass(buf, pos)
    [] case = "TextEnc" -> decodeTextEnc(buf, pos)
    [] case = "MessageType" -> decodeMessageType(buf, pos)
    [] case = "Version" -> decodeVersion(buf, pos)
    [] case = "Priority" -> decodePriority(buf, pos)
    [] case = "ResponseStatus" -> decodeResponseStatus(buf, pos)
    [] case = "SenderVisibility" -> decodeSenderVisibility(buf, pos)
    [] case = "Status" -> decodeStatus(buf, pos)

\* AfterField without the return after ContentType: the loop goes on
AfterFieldOnward(f) == "header"

\* where decodeHeader goes after storing field f: ContentType is the last header
AfterField(f) == IF f = ContentType THEN "body" ELSE "header"

\* BodyErrIsFatal without the exemption of io.EOF
BodyErrIsFatalStrict(e) == e # ""

\* Unmarshal, line 34: the errors of decodeBody that fail the decode
BodyErrIsFatal(e) == e # "" /\ e # "EOF"

\* UnmarshalPushNotification: offset := packet[2]; offset += 3, in a byte
PushOffset(p) == (p[3] + 3) % 256

\* buf := make([]byte, dataLen); io.ReadFull(d.r, body): the payload of a part
ReadPartData(buf, pos, dataLen) == ReadFull(buf, pos, dataLen)

\* ------------------------------------------------------------ state
VARIABLES
  gen,        \* how the input was drawn (never changes)
  push,       \* the packet given to UnmarshalPushNotification
  packet,     \* the packet given to Unmarshal
  pc,         \* where the decoder is
  pos,        \* the cursor of dec over packet
  hdr,        \* decodeHeader: the entries appended to hdr, in order
  entries,    \* decodeBody: the part count read
  i,          \* decodeBody: the index of the part loop
  parts,      \* decodeBody: the parts appended
  cur,        \* decodeBody: the part being decoded and its lengths
  headerBuf,  \* decodeBody: the header block of the part being decoded
  hpos,       \* the cursor of tmpDecoder over headerBuf
  pbuf,       \* decodeContentTypeValue: the sub-buffer holding the parameters
  ppos,       \* the cursor of its tmpDecoder over pbuf
  out,        \* decodeContentTypeParams: the map built
  ret,        \* the caller decodeContentTypeValue returns to
  ctv,        \* the content type decoded before the parameters
  returned,   \* "no", or what the entry point returned: "msg" or "err"
  msg,        \* the Message returned
  err,        \* the error returned
  tagReads,   \* the cursor positions at which a byte was taken as a field tag
  ctEnd,      \* the cursor right after the ContentType value, -1 before
  countPos,   \* the cursor at which decodeBody started to read, -1 before
  layout,     \* per part appended, where its pieces lie in packet
  vu,         \* the result of a lone decodeVarUint
  tick        \* the parity of the number of steps taken

vars ==
  <<gen, push, packet, pc, pos, hdr, entries, i, parts, cur, headerBuf, hpos,
    pbuf, ppos, out, ret, ctv, returned, msg, err, tagReads, ctEnd, countPos,
    layout, vu, tick>>

\* the changing variables as one record, and the step that assigns them
S ==
  [packet |-> packet, pc |-> pc, pos |-> pos, hdr |-> hdr, entries |-> entries,
   i |-> i, parts |-> parts, cur |-> cur, headerBuf |-> headerBuf, hpos |-> hpos,
   pbuf |-> pbuf, ppos |-> ppos, out |-> out, ret |-> ret, ctv |-> ctv,
   returned |-> returned, msg |-> msg, err |-> err, tagReads |-> tagReads,
   ctEnd |-> ctEnd, countPos |-> countPos, layout |-> layout, vu |-> vu]

Apply(n) ==
  /\ packet' = n.packet /\ pc' = n.pc /\ pos' = n.pos /\ hdr' = n.hdr
  /\ entries' = n.entries /\ i' = n.i /\ parts' = n.parts /\ cur' = n.cur
  /\ headerBuf' = n.headerBuf /\ hpos' = n.hpos /\ pbuf' = n.pbuf
  /\ ppos' = n.ppos /\ out' = n.out /\ ret' = n.ret /\ ctv' = n.ctv
  /\ returned' = n.returned /\ msg' = n.msg /\ err' = n.err
  /\ tagReads' = n.tagReads /\ ctEnd' = n.ctEnd /\ countPos' = n.countPos
  /\ layout' = n.layout /\ vu' = n.vu
  /\ tick' = ~tick
  /\ UNCHANGED <<gen, push>>

NoMessage == [Header |-> <<>>, Parts |-> <<>>]

EmptyPart ==
  [Header |-> {}, FileName |-> Txt(<<>>), ContentType |-> Txt(<<>>), Data |-> <<>>]

NoCur ==
  [part |-> EmptyPart, headerLen |-> <<0, 0>>, dataLen |-> <<0, 0>>,
   hs |-> [fileName |-> Txt(<<>>), resp |-> {}], at |-> 0, hdrAt |-> 0]

\* return nil, err
Fail(s, e) == [s EXCEPT !.pc = "done", !.returned = "err", !.err = e]

\* Unmarshal, lines 33-43, once decodeBody has returned (ps, e)
LeaveBody(s, ps, e) ==
  IF BodyErrIsFatal(e) THEN Fail(s, e)
  ELSE [s EXCEPT !.pc = "done", !.returned = "msg",
                 !.msg = [Header |-> s.hdr, Parts |-> ps]]

\* ------------------------------------------------------------ steps
invalidPacket == "invalid push notification wap packet"

\* UnmarshalPushNotification up to its call of mms.Unmarshal
PushStep(s, p) ==
  IF Len(p) < 6 THEN Fail(s, invalidPacket)
  ELSE IF p[2] # 6 THEN Fail(s, invalidPacket)
  ELSE IF PushOffset(p) >= Len(p) THEN Fail(s, invalidPacket)
  ELSE [s EXCEPT !.packet = SubSeq(p, PushOffset(p) + 1, Len(p)), !.pc = "header"]

\* hdr[f] = append(hdr[f], v) with the cursor at p
StoreField(s, f, v, p) ==
  [s EXCEPT !.hdr = Append(@, [f |-> f, v |-> v]), !.pos = p,
            !.pc = AfterField(f),
            !.ctEnd = IF f = ContentType THEN p ELSE @]

\* a case of decodeHeader that stores the decoded value r of field f
StoreDecoded(t, f, r) ==
  IF ~r.ok THEN Fail([t EXCEPT !.pos = r.pos], r.e) ELSE StoreField(t, f, r.v, r.pos)

\* the ContentType case of decodeHeader, h the head of the value
HeaderContentType(t, f, h) ==
  IF ~h.ok THEN Fail([t EXCEPT !.pos = h.pos], h.e)
  ELSE IF h.general
  THEN [t EXCEPT !.pc = "params", !.pbuf = h.sub, !.ppos = h.spos, !.out = {},
                 !.ret = "header", !.ctv = h.ct, !.pos = h.pos]
  ELSE StoreField(t, f, h.ct, h.pos)

\* UnknownField without the return: the field is passed over
UnknownFieldSkipped(t) == t

\* the default case of the switch of decodeHeader
UnknownField(t) == Fail(t, "unknown mms field type")

\* the switch of decodeHeader on the field ft read at s.pos
HeaderSwitch(s, ft, case) ==
  LET t == [s EXCEPT !.tagReads = @ \cup {s.pos}, !.pos = ft.pos]
  IN  IF ft.v = 0 THEN [t EXCEPT !.pc = "body"]
      ELSE CASE case = "default" -> UnknownField(t)
             [] case = "RetrieveStatus" ->
                  [t EXCEPT !.pos = ReadByte(s.packet, ft.pos).pos]
             [] case = "ContentType" ->
                  HeaderContentType(t, ft.v, ContentTypeHead(s.packet, ft.pos))
             [] OTHER ->
                  StoreDecoded(t, ft.v, DecodeFieldValue(case, s.packet, ft.pos))

\* one iteration of the loop of decodeHeader
HeaderField(s, ft) ==
  IF ~ft.ok
  THEN IF ft.e = "EOF" THEN [s EXCEPT !.pc = "body"] ELSE Fail(s, ft.e)
  ELSE HeaderSwitch(s, ft, HeaderCase(ft.v))

HeaderStep(s) == HeaderField(s, decodeFieldType(s.packet, s.pos))

\* decodeBody, lines 96-115: the content type of a part is decoded
AfterPartContentType(s, ct, params) ==
  IF offset(s.headerBuf, s.hpos) < Len(s.headerBuf)
  THEN LeaveBody(s, <<>>, "pending part headers")
  ELSE [s EXCEPT !.pc = "phdr",
                 !.cur = [@ EXCEPT !.part = [EmptyPart EXCEPT !.ContentType = ct,
                                                              !.Header = FoldParams(params)],
                                   !.hs = [fileName |-> Txt(<<>>), resp |-> {}]]]

\* one iteration it of the loop of decodeContentTypeParams, and the return of
\* decodeContentTypeValue to its caller when the loop ends
ParamsNext(s, it) ==
  CASE it.st = "cont" -> [s EXCEPT !.ppos = it.pos, !.out = it.out]
    [] it.st = "err" ->
         IF s.ret = "header"
         THEN Fail([s EXCEPT !.ppos = it.pos], "decode content type params err")
         ELSE LeaveBody([s EXCEPT !.ppos = it.pos], <<>>,
                        "decode content type for mime part err")
    [] OTHER ->
         IF s.ret = "header" THEN StoreField(s, ContentType, s.ctv, s.pos)
         ELSE AfterPartContentType(s, s.ctv, s.out)

ParamsStep(s) == ParamsNext(s, ParamIter(s.pbuf, s.ppos, s.out))

\* decodeBody, lines 60-65
BodyStep(s) ==
  LET r == decodeVarUint(s.packet, s.pos)
      t == [s EXCEPT !.countPos = s.pos, !.pos = r.pos]
  IN  IF ~r.ok THEN LeaveBody(t, <<>>, r.e)
      ELSE [t EXCEPT !.entries = r.v, !.i = 0, !.parts = <<>>, !.pc = "part"]

\* decodeBody, lines 85-94: the content type of the part, h its head
PartContentType(s, hl, dl, hb, h) ==
  LET t == [s EXCEPT !.pos = hb.pos, !.headerBuf = hb.v, !.hpos = h.pos,
                     !.cur = [NoCur EXCEPT !.headerLen = hl.v, !.dataLen = dl.v,
                                           !.at = s.pos, !.hdrAt = dl.pos]]
  IN  IF ~h.ok
      THEN LeaveBody([s EXCEPT !.pos = hb.pos, !.headerBuf = hb.v, !.hpos = h.pos],
                     <<>>, "decode content type for mime part err")
      ELSE IF h.general
      THEN [t EXCEPT !.pc = "params", !.pbuf = h.sub, !.ppos = h.spos, !.out = {},
                     !.ret = "part", !.ctv = h.ct]
      ELSE AfterPartContentType(t, h.ct, {})

\* decodeBody, lines 80-84: the header block hb of the part
PartHeaderBlock(s, hl, dl, hb) ==
  IF ~hb.ok
  THEN LeaveBody([s EXCEPT !.pos = hb.pos], <<>>, "read mime part header err")
  ELSE PartContentType(s, hl, dl, hb, ContentTypeHead(hb.v, 0))

\* decodeBody, lines 75-78: the data length dl of the part
PartDataLen(s, hl, dl) ==
  IF ~dl.ok THEN LeaveBody([s EXCEPT !.pos = dl.pos], <<>>, dl.e)
  ELSE PartHeaderBlock(s, hl, dl, ReadFull(s.packet, dl.pos, hl.v))

\* decodeBody, lines 71-74: the header length hl of the part
PartHeaderLen(s, hl) ==
  IF ~hl.ok THEN LeaveBody([s EXCEPT !.pos = hl.pos], <<>>, hl.e)
  ELSE PartDataLen(s, hl, decodeVarUint(s.packet, hl.pos))

\* the test of the part loop and one iteration up to the content type
PartStep(s) ==
  IF ~LessThanU32(s.i, s.entries) THEN LeaveBody(s, s.parts, "")
  ELSE PartHeaderLen(s, decodeVarUint(s.packet, s.pos))

\* lines 122-135 of decodeBody: the payload body of the part is read
PartData(s, body) ==
  LET part == [s.cur.part EXCEPT !.FileName = s.cur.hs.fileName,
                                 !.Header = MergeHeaders(@, s.cur.hs.resp),
                                 !.Data = body.v]
      where == [at |-> s.cur.at, hdrAt |-> s.cur.hdrAt,
                headerLen |-> s.cur.headerLen, dataLen |-> s.cur.dataLen,
                dataAt |-> s.pos, end |-> body.pos]
  IN  IF ~body.ok
      THEN LeaveBody([s EXCEPT !.pos = body.pos], <<>>, "read mime part body err")
      ELSE [s EXCEPT !.pos = body.pos, !.parts = Append(@, part), !.i = @ + 1,
                     !.pc = "part", !.layout = Append(@, where)]

\* one iteration it of the loop of decodePartHeaders and, when it ends, the
\* rest of the iteration of decodeBody
PartHeaderNext(s, it) ==
  CASE it.st = "cont" -> [s EXCEPT !.hpos = it.pos, !.cur = [@ EXCEPT !.hs = it.out]]
    [] it.st = "err" ->
         LeaveBody([s EXCEPT !.hpos = it.pos], <<>>, "parse mime part header err")
    [] OTHER -> PartData(s, ReadPartData(s.packet, s.pos, s.cur.dataLen))

PartHeaderStep(s) == PartHeaderNext(s, PartHeaderIter(s.headerBuf, s.hpos, s.cur.hs))

\* decodeVarUint on its own, over the whole of packet
VarUintStep(s) == [s EXCEPT !.vu = decodeVarUint(s.packet, 0), !.pc = "done"]

\* ------------------------------------------------------------ inputs
\* complete header fields: a tag byte and a well-formed value of its grammar
FieldMenu ==
  << <<150, 97, 98, 0>>,         \* Subject, text "ab"
     <<151, 3, 234, 97, 0>>,     \* To, value-length 3, charset 106, text "a"
     <<129, 4, 1, 106, 97, 0>>,  \* Bcc, value-length 4, long-integer charset, "a"
     <<137, 3, 128, 97, 0>>,     \* From, address present, "a"
     <<137, 1, 129>>,            \* From, insert-address token
     <<134, 128>>,               \* DeliveryReport, yes
     <<133, 2, 1, 2>>,           \* Date, two octets
     <<136, 3, 129, 1, 5>>,      \* Expiry, relative
     <<135, 31, 3, 128, 1, 5>>,  \* DeliveryTime, absolute, length-quote
     <<142, 1, 7>>,              \* MessageSize
     <<138, 128>>,               \* MessageClass, personal
     <<152, 97, 0>>,             \* TransactionID, "a"
     <<140, 130>>,               \* MessageType, m-notification-ind
     <<141, 144>>,               \* MMSVersion 1.0
     <<143, 129>>,               \* Priority
     <<146, 128>>,               \* ResponseStatus
     <<148, 128>>,               \* SenderVisibility
     <<149, 128>>,               \* Status
     <<153, 128>> >>             \* RetrieveStatus

FieldIds == 1..Len(FieldMenu)

TagOf(field) == field[1] % 128

\* what may end a header-only input: nothing more, one more complete field, a
\* field cut short inside its value, an unknown tag, the tag 0, a byte that
\* is no tag
Tails ==
  {[kind |-> "none", bytes |-> <<>>, tag |-> 0]}
  \cup {[kind |-> "field", bytes |-> FieldMenu[k], tag |-> TagOf(FieldMenu[k])] :
          k \in FieldIds}
  \cup {[kind |-> "truncated", bytes |-> SubSeq(FieldMenu[c[1]], 1, c[2]),
         tag |-> TagOf(FieldMenu[c[1]])] :
          c \in {d \in FieldIds \X (1..5) : d[2] < Len(FieldMenu[d[1]])}}
  \cup {[kind |-> "unknown", bytes |-> <<b>> \o rest, tag |-> b % 128] :
          b \in {154, 160, 165, 255}, rest \in {<<>>, <<97, 0>>}}
  \cup {[kind |-> "zero", bytes |-> <<128>>, tag |-> 0],
        [kind |-> "nontag", bytes |-> <<5>>, tag |-> 5]}

\* ContentType fields: the constrained form, and the general form with a
\* Name parameter
ContentTypeMenu == << <<132, 131>>, <<132, 4, 131, 133, 97, 0>> >>

\* a part: header-length, data-length, header block, payload; dlen is the
\* data-length it declares, as <<hi, lo>>, and fname its Filename parameter
MkPart(kind, block, data, fname) ==
  [kind |-> kind, bytes |-> <<Len(block), Len(data)>> \o block \o data,
   dlen |-> <<0, Len(data)>>, fname |-> fname]

PartMenu ==
  << MkPart("plain", <<131>>, <<7, 8>>, <<>>),
     MkPart("plain", <<131>>, <<>>, <<>>),
     MkPart("location", <<131, 142, 97, 0>>, <<9>>, <<>>),
     MkPart("general", <<4, 131, 133, 97, 0>>, <<7>>, <<>>),
     MkPart("pair", <<131, 98, 0, 99, 0>>, <<>>, <<>>),
     MkPart("disposition", <<131, 197, 4, 129, 152, 97, 0>>, <<7>>, <<97>>),
     MkPart("disposition", <<131, 174, 4, 129, 152, 97, 0>>, <<7>>, <<97>>),
     MkPart("disposition", <<131, 197, 1, 129>>, <<7>>, <<>>),
     MkPart("unknown", <<131, 200>>, <<7>>, <<>>),
     \* the data-length 2^32 + 2 in five bytes, and two bytes of payload
     [kind |-> "wide", bytes |-> <<1, 144, 128, 128, 128, 2, 131, 7, 8>>,
      dlen |-> <<65536, 2>>, fname |-> <<>>] >>

PartIds == 1..Len(PartMenu)

\* the bytes an arbitrary input is made of
FuzzBytes == {0, 1, 31, 97, 129, 131, 132, 153}

\* the halves of the integers whose varUint encoding is decoded
HiVals == {0, 1, 255, 4096, 65535, 65536, 524287}

LoVals == {0, 1, 127, 128, 16383, 16384, 65535}

\* the standard encoding of the integer hi * 2^16 + lo < 2^35: seven bits a
\* byte, most significant first, the high bit set on all but the last
EncodeVarUint(v) ==
  LET hi == v[1]
      lo == v[2]
      g == <<hi \div 4096, (hi \div 32) % 128, (lo \div 16384) + (hi % 32) * 4,
             (lo \div 128) % 128, lo % 128>>
      first == IF \E k \in 1..4 : g[k] # 0
               THEN CHOOSE k \in 1..4 : g[k] # 0 /\ \A j \in 1..(k - 1) : g[j] = 0
               ELSE 5
  IN  [k \in 1..(6 - first) |->
         IF k = 6 - first THEN g[5] ELSE g[first + k - 1] + 128]

NoGen ==
  [fam |-> "", tags |-> <<>>, tail |-> "", tailTag |-> 0, ct |-> 0,
   parts |-> <<>>, declared |-> 0, cut |-> 0, v |-> <<0, 0>>,
   f |-> 0, n |-> 0, arg |-> <<>>]

\* the state in which entry point start is called
Start(g, pu, pk, start) ==
  /\ gen = g /\ push = pu /\ packet = pk /\ pc = start /\ pos = 0
  /\ hdr = <<>> /\ entries = <<0, 0>> /\ i = 0 /\ parts = <<>> /\ cur = NoCur
  /\ headerBuf = <<>> /\ hpos = 0 /\ pbuf = <<>> /\ ppos = 0 /\ out = {}
  /\ ret = "" /\ ctv = Txt(<<>>) /\ returned = "no" /\ msg = NoMessage
  /\ err = "" /\ tagReads = {} /\ ctEnd = -1 /\ countPos = -1
  /\ layout = <<>> /\ vu = Err("", 0) /\ tick = FALSE

\* Unmarshal on a header without ContentType
InitHeader ==
  \E fs \in SeqsUpTo(FieldIds, MaxFields - 1), tl \in Tails :
    Start([NoGen EXCEPT !.fam = "header",
                        !.tags = [k \in 1..Len(fs) |-> TagOf(FieldMenu[fs[k]])]
                                 \o (IF tl.kind = "field" THEN <<tl.tag>> ELSE <<>>),
                        !.tail = IF tl.kind = "field" THEN "none" ELSE tl.kind,
                        !.tailTag = IF tl.kind = "field" THEN 0 ELSE tl.tag],
          <<>>,
          Flatten([k \in 1..Len(fs) |-> FieldMenu[fs[k]]]) \o tl.bytes,
          "header")

\* Unmarshal on MessageType, ContentType and a body of parts, declaring as
\* many parts as follow or one more, with the last cut bytes missing
InitBody ==
  \E ct \in 1..Len(ContentTypeMenu), ps \in SeqsUpTo(PartIds, MaxParts),
     more \in 0..1, cut \in 0..2 :
    LET body == Flatten([k \in 1..Len(ps) |-> PartMenu[ps[k]].bytes])
        whole == <<140, 130>> \o ContentTypeMenu[ct] \o <<Len(ps) + more>> \o body
    IN  /\ cut <= Len(body)
        /\ Start([NoGen EXCEPT !.fam = "body", !.tags = <<MessageType, ContentType>>,
                               !.ct = ct, !.parts = ps,
                               !.declared = Len(ps) + more, !.cut = cut],
                 <<>>, SubSeq(whole, 1, Len(whole) - cut), "header")

\* Unmarshal on arbitrary bytes
InitFuzz ==
  \E pk \in SeqsUpTo(FuzzBytes, MaxFuzzLen) :
    Start([NoGen EXCEPT !.fam = "fuzz"], <<>>, pk, "header")

\* UnmarshalPushNotification
InitPush ==
  \E t \in {5, 6}, o \in {0, 1, 2, 3, 252, 253, 254, 255},
     rest \in SeqsUpTo({140, 130}, MaxPushTail) :
    Start([NoGen EXCEPT !.fam = "push"], <<0, t, o>> \o rest, <<>>, "push")

\* decodeVarUint on the encoding of an integer below 2^35
InitVarUint ==
  \E hi \in HiVals, lo \in LoVals :
    Start([NoGen EXCEPT !.fam = "varuint", !.v = <<hi, lo>>], <<>>,
          EncodeVarUint(<<hi, lo>>), "varuint")

\* the bytes a long integer is made of
LongIntBytes == {0, 255}

\* the field f holding the long integer of length byte n and bytes bs:
\* DeliveryTime and Expiry wrap it in a value length and the absolute token
LongIntField(f, n, bs) ==
  IF f \in {DeliveryTime, Expiry}
  THEN <<128 + f, Len(bs) + 2, 128, n>> \o bs
  ELSE <<128 + f, n>> \o bs

\* Unmarshal on one field whose value is a long integer: every length byte
\* 0..8 with that many bytes, and length bytes past 8 with or without a
\* byte after them
InitLongInt ==
  \E f \in {Date, MessageSize, DeliveryTime, Expiry}, n \in {0, 1, 2, 3, 4, 5, 6, 7, 8, 9, 30, 31, 255} :
    \E bs \in (IF n <= 8 THEN [1..n -> LongIntBytes] \cup {[k \in 1..n |-> 1]}
                ELSE {<<>>, <<1>>}) :
      Start([NoGen EXCEPT !.fam = "longint", !.f = f, !.n = n, !.arg = bs],
            <<>>, LongIntField(f, n, bs), "header")

\* the bytes a text is made of
TextBytes == {97, 98}

\* the byte put before a text as its quote
QuoteByte == 200

\* a text string: an optional quote, the text, the terminating zero byte
TextString(quoted, text) ==
  (IF quoted THEN <<QuoteByte>> ELSE <<>>) \o text \o <<0>>

\* the field f holding an encoded string in its plain form; From wraps it in
\* a value length and the address-present token
TextField(f, ts) ==
  IF f = From THEN <<128 + f, Len(ts) + 1, 128>> \o ts ELSE <<128 + f>> \o ts

\* Unmarshal on one field whose value is an encoded string in its plain
\* form: the first byte of the value is a quote or the first byte of the text
InitText ==
  \E f \in {Subject, To, Cc, Bcc, ResponseText, From},
     text \in SeqsUpTo(TextBytes, MaxTextLen), quoted \in BOOLEAN :
    /\ quoted \/ text # <<>>
    /\ Start([NoGen EXCEPT !.fam = "text", !.f = f, !.arg = text,
                           !.n = IF quoted THEN 1 ELSE 0],
             <<>>, TextField(f, TextString(quoted, text)), "header")

\* Unmarshal on a ContentType field whose media type is a text
InitMediaText ==
  \E text \in SeqsUpTo(TextBytes, MaxTextLen) \ {<<>>}, general \in BOOLEAN :
    Start([NoGen EXCEPT !.fam = "media", !.tail = "text", !.arg = text],
          <<>>,
          <<128 + ContentType>>
            \o (IF general THEN <<Len(text) + 1>> ELSE <<>>)
            \o TextString(FALSE, text),
          "header")

\* Unmarshal on a ContentType field whose media type is a short integer,
\* inside the table of well-known content types and outside it
InitMediaIndex ==
  \E idx \in {0, 3, Len(contentTypes) - 1, Len(contentTypes), 127} :
    Start([NoGen EXCEPT !.fam = "media", !.tail = "index", !.n = idx],
          <<>>, <<128 + ContentType, 128 + idx>>, "header")

\* Unmarshal on a ContentType field in the general form with a Charset
\* parameter given as a text
InitMediaCharset ==
  \E text \in SeqsUpTo(TextBytes, MaxTextLen) \ {<<>>} :
    Start([NoGen EXCEPT !.fam = "media", !.tail = "charset", !.arg = text],
          <<>>,
          <<128 + ContentType, Len(text) + 3, 131, CharsetParam>>
            \o TextString(FALSE, text),
          "header")

\* value-length prefixes that are malformed: a byte above 31, and the
\* length-quote 31 before a varUint that is unterminated or cut short
BadValueLengths ==
  {[kind |-> "invalid", bytes |-> <<32>>],
   [kind |-> "invalid", bytes |-> <<200>>],
   [kind |-> "unterminated", bytes |-> <<31, 128, 128, 128, 128, 128>>],
   [kind |-> "truncated", bytes |-> <<31>>],
   [kind |-> "truncated", bytes |-> <<31, 129>>]}

\* Unmarshal on one field that starts with a malformed value length, alone
\* or followed by the bytes of a value
InitValueLength ==
  \E f \in {DeliveryTime, Expiry, From, Subject, ContentType},
     vl \in BadValueLengths, rest \in {<<>>, <<128, 1, 5>>, <<128, 97, 0>>} :
    /\ vl.kind = "truncated" => rest = <<>>
    /\ f \in {Subject, ContentType} => vl.bytes[1] = 31
    /\ Start([NoGen EXCEPT !.fam = "vlen", !.f = f, !.tail = vl.kind,
                           !.arg = vl.bytes],
             <<>>, <<128 + f>> \o vl.bytes \o rest, "header")

\* the value lengths that declare l bytes: the short length, and the
\* length-quote before a varUint of one or of two bytes
ValueLengthsOf(l) == {<<l>>, <<31, l>>, <<31, 128, l>>}

\* sub-buffers of the header fields decoded through a sub-decoder: contents
\* the grammar is met by, contents with bytes after the value and contents
\* that end before the value does
DelimitedMenu ==
  {[f |-> From, content |-> c] :
     c \in {<<128, 97, 0>>, <<128, 97, 0, 98>>, <<128, 97>>, <<129>>, <<129, 1, 2>>,
            <<130>>}}
  \cup {[f |-> Subject, content |-> c] :
          c \in {<<127, 97>>, <<234, 97, 0>>, <<234, 97, 0, 98>>, <<234, 97>>,
                 <<1, 106, 97, 0>>, <<1>>}}
  \cup {[f |-> ContentType, content |-> c] :
          c \in {<<131>>, <<131, 133, 97, 0>>, <<131, 133, 97>>, <<97, 0, 98>>,
                 <<97>>}}

\* Unmarshal on one field that holds a length-delimited value, alone or with
\* bytes after it; gen.n is where the value ends
InitDelimited ==
  \E d \in DelimitedMenu, after \in {<<>>, <<141, 144>>, <<0>>} :
    \E vl \in ValueLengthsOf(Len(d.content)) :
      Start([NoGen EXCEPT !.fam = "delimited", !.tail = "header", !.f = d.f,
                          !.arg = d.content,
                          !.n = 1 + Len(vl) + Len(d.content)],
            <<>>, <<128 + d.f>> \o vl \o d.content \o after, "header")

\* the values of a Content-Disposition header: the disposition and parameters
DispositionMenu == {<<129>>, <<129, 152, 97, 0>>, <<97, 0>>, <<129, 133, 97>>}

\* Unmarshal on a body of one part whose header block is the content type
\* text/plain and a Content-Disposition header, alone or with a header after
\* it; gen.n is where the value of the header ends in the header block
InitDisposition ==
  \E h \in {ContentDispositionPartHeader, DepContentDispositionPartHeader},
     c \in DispositionMenu, after \in {<<>>, <<142, 97, 0>>} :
    \E vl \in ValueLengthsOf(Len(c)) :
      LET block == <<131, h>> \o vl \o c \o after
      IN  Start([NoGen EXCEPT !.fam = "delimited", !.tail = "part", !.f = h,
                              !.arg = c, !.n = 2 + Len(vl) + Len(c)],
                <<>>,
                <<140, 130, 132, 131, 1, Len(block), 1>> \o block \o <<7>>,
                "header")

\* parameters decodeContentTypeParams has a case for: the legacy Name "a",
\* Type text/plain, Start "b"
KnownParams == {<<DepNameParam, 97, 0>>, <<TypeParam, 131>>, <<StartParam, 98, 0>>}

\* parameters it has no case for, each with its value: Filename "a", Secure
\* (no value), Padding 1, Max-Age 5
OtherParams == {<<FilenameParam, 97, 0>>, <<144>>, <<136, 129>>, <<142, 133>>}

\* the parameters of ps that decodeContentTypeParams has a case for
KnownOnly(ps) == SelectSeq(ps, LAMBDA prm : prm \in KnownParams)

\* Unmarshal on a ContentType field in the general form, text/plain with a
\* block of parameters; gen.arg is the block without the parameters that
\* have no case
InitParams ==
  \E ps \in SeqsUpTo(KnownParams \cup OtherParams, MaxParams) :
    /\ \E k \in 1..Len(ps) : ps[k] \in OtherParams
    /\ Start([NoGen EXCEPT !.fam = "params", !.arg = Flatten(KnownOnly(ps)),
                           !.n = Len(ps)],
             <<>>,
             <<128 + ContentType, Len(Flatten(ps)) + 1, 131>> \o Flatten(ps),
             "header")

Init ==
  \/ InitHeader \/ InitBody \/ InitFuzz \/ InitPush \/ InitVarUint
  \/ InitLongInt \/ InitText \/ InitValueLength
  \/ InitDelimited \/ InitDisposition \/ InitParams
  \/ InitMediaText \/ InitMediaIndex \/ InitMediaCharset

\* ------------------------------------------------------------ actions
UnmarshalPushNotification == pc = "push" /\ Apply(PushStep(S, push))

DecodeHeaderField == pc = "header" /\ Apply(HeaderStep(S))

DecodeContentTypeParam == pc = "params" /\ Apply(ParamsStep(S))

DecodeBodyCount == pc = "body" /\ Apply(BodyStep(S))

DecodePart == pc = "part" /\ Apply(PartStep(S))

DecodePartHeader == pc = "phdr" /\ Apply(PartHeaderStep(S))

DecodeVarUint == pc = "varuint" /\ Apply(VarUintStep(S))

Next ==
  \/ UnmarshalPushNotification
  \/ DecodeHeaderField
  \/ DecodeContentTypeParam
  \/ DecodeBodyCount
  \/ DecodePart
  \/ DecodePartHeader
  \/ DecodeVarUint

Spec == Init /\ [][Next]_vars

\* ------------------------------------------------------------ claims
\* the fields of the Header of the Message returned, in the order stored
HeaderFields == [k \in 1..Len(msg.Header) |-> msg.Header[k].f]

\* the fields the switch of decodeHeader has a case for
Dispatched == Bcc..RetrieveStatus

\* C1: a header made of complete recognized fields that ends at a field-tag
\* boundary without ContentType decodes to a Message that holds every field
\* decoded (all but RetrieveStatus, whose value is discarded), each once per
\* occurrence, and no parts
C1_HeaderEndsAtTagBoundary ==
  (gen.fam = "header" /\ gen.tail = "none" /\ pc = "done") =>
    LET stored(f) == f # RetrieveStatus
    IN  /\ returned = "msg"
        /\ err = ""
        /\ HeaderFields = SelectSeq(gen.tags, stored)
        /\ msg.Parts = <<>>

\* a lone Subject field has been decoded to a Message with one Subject entry
C1_Witness ==
  /\ gen.fam = "header" /\ gen.tail = "none" /\ pc = "done"
  /\ packet = <<150, 97, 98, 0>>
  /\ returned = "msg" /\ HeaderFields = <<Subject>> /\ msg.Parts = <<>>

\* C2: once ContentType is stored the header decoder stops: every byte taken
\* as a field tag lies before the end of the ContentType value, ContentType is
\* the last field stored, the decoder is never back in the header loop, and
\* the body count is read from the byte right after the value
C2_ContentTypeEndsHeader ==
  ctEnd >= 0 =>
    /\ pc # "header"
    /\ \A p \in tagReads : p < ctEnd
    /\ hdr[Len(hdr)].f = ContentType
    /\ pc # "body" => countPos = ctEnd

\* a ContentType after another field was stored and the count read after it
C2_Witness ==
  /\ ctEnd >= 0 /\ countPos = ctEnd /\ ctEnd < Len(packet)
  /\ Len(hdr) >= 2 /\ entries = <<0, 1>> /\ pc = "done"

\* C3: a byte taken as a field tag whose low seven bits are neither zero nor
\* a field the header decoder dispatches on makes Unmarshal return an error
\* and no Message, whatever was decoded before
C3_UnknownTagFails ==
  \A p \in tagReads :
    (packet[p + 1] % 128 # 0 /\ packet[p + 1] % 128 \notin Dispatched) =>
      (pc = "done" /\ returned = "err" /\ err = "unknown mms field type"
       /\ msg = NoMessage)

\* an unknown tag after a decoded field has failed the decode
C3_Witness ==
  /\ gen.fam = "header" /\ gen.tail = "unknown" /\ Len(gen.tags) = 1
  /\ Len(hdr) = 1 /\ pc = "done" /\ returned = "err"

\* C4: when the input ends after the tag of a recognized field and before the
\* value of the field is complete, Unmarshal returns an error and no Message
C4_TruncatedValueFails ==
  (gen.fam = "header" /\ gen.tail = "truncated" /\ pc = "done") =>
    (returned = "err" /\ msg = NoMessage)

\* C5: Unmarshal returns a complete Message or an error: when the body
\* declares a count of parts and the input ends before that many parts are
\* read, it returns an error, and a Message returned after ContentType has as
\* many Parts as the body declares
C5_CompleteMessageOrError ==
  (pc = "done" /\ ctEnd >= 0) =>
    /\ (LessThanU32(Len(layout), entries) => returned = "err")
    /\ (returned = "msg" => entries = <<0, Len(msg.Parts)>>)

\* C6: in a Message decoded from parts that declare their lengths, the Data
\* of each part is exactly as many bytes as the part declares, taken from
\* the byte after its header block, and the next part starts right after
C6_DataIsDeclaredBytes ==
  (gen.fam = "body" /\ pc = "done" /\ returned = "msg") =>
    \A k \in 1..Len(msg.Parts) :
      LET declared == PartMenu[gen.parts[k]].dlen
          at == layout[k]
      IN  /\ declared[1] = 0
          /\ at.dataAt = at.hdrAt + at.headerLen[2]
          /\ msg.Parts[k].Data = SubSeq(packet, at.dataAt + 1, at.dataAt + declared[2])
          /\ at.end = at.dataAt + declared[2]
          /\ k < Len(msg.Parts) => layout[k + 1].at = at.end

\* the body is whole: as many parts as declared, each of a well-formed kind
WholeBody ==
  /\ gen.fam = "body" /\ gen.cut = 0 /\ gen.declared = Len(gen.parts)
  /\ \A k \in 1..Len(gen.parts) :
       PartMenu[gen.parts[k]].kind \in {"plain", "location", "general", "pair",
                                        "disposition"}

\* C7: a part whose Content-Disposition header carries a Filename parameter
\* is decoded to a Part whose FileName is the text of the parameter, and
\* FileName is empty for a part without the parameter
C7_FileNameIsFilenameParam ==
  (WholeBody /\ pc = "done") =>
    /\ returned = "msg"
    /\ Len(msg.Parts) = Len(gen.parts)
    /\ \A k \in 1..Len(msg.Parts) :
         msg.Parts[k].FileName = Txt(PartMenu[gen.parts[k]].fname)

\* the bytes the cursors have yet to pass, weighted so that a sub-buffer
\* counts for less than the bytes it was cut from, and the loops left to run
Remaining ==
  LET rank == CASE pc = "push" -> 6 [] pc = "header" -> 5 [] pc = "params" -> 4
                [] pc = "phdr" -> 3 [] pc = "body" -> 2 [] pc = "part" -> 1
                [] pc = "varuint" -> 1 [] OTHER -> 0
  IN  3 * (IF pc = "push" THEN Len(push) ELSE Len(packet) - pos)
      + 2 * (Len(headerBuf) - hpos) + (Len(pbuf) - ppos) + rank

\* no cursor is past the end of its buffer, and a decoder that has not
\* returned is at a place from which it steps on
C8_InBounds ==
  /\ pos \in 0..Len(packet)
  /\ hpos \in 0..Len(headerBuf)
  /\ ppos \in 0..Len(pbuf)
  /\ pc \in {"push", "header", "params", "body", "part", "phdr", "varuint", "done"}

\* an iteration that stays in its loop moves the cursor of the loop forward,
\* a cursor never moves back, and every step brings the end nearer
C8_Progress ==
  /\ (pc = "header" /\ pc' = "header") => pos' > pos
  /\ (pc = "part" /\ pc' # "done") => pos' > pos
  /\ (pc = "phdr" /\ pc' = "phdr") => hpos' > hpos
  /\ (pc = "params" /\ pc' = "params") => ppos' > ppos
  /\ pc # "push" => pos' >= pos
  /\ pc \in {"params", "phdr"} => hpos' >= hpos
  /\ pc = "params" => ppos' >= ppos
  /\ Remaining' < Remaining

\* C8: for every input Unmarshal terminates and never reads past the end of
\* a buffer: each iteration of the header-field loop, the part loop, the
\* part-header loop and the parameter loop moves its cursor forward by at
\* least one byte or ends the loop, and no cursor ever moves back
C8_TerminatesInBounds == []C8_InBounds /\ [][C8_Progress]_vars

\* every loop has run: a Message of two parts, one with parameters in its
\* content type and one with a header in its header block, was decoded whole
C8_Witness ==
  /\ pc = "done" /\ returned = "msg" /\ Len(msg.Parts) = 2 /\ pos = Len(packet)
  /\ \E k \in 1..2 : PartMenu[gen.parts[k]].kind = "general"
  /\ \E k \in 1..2 : PartMenu[gen.parts[k]].kind = "location"

\* C9: UnmarshalPushNotification returns the invalid-packet error when the
\* packet is shorter than 6 bytes, its second byte is not 6, or the index
\* packet[2] + 3 is not inside the packet, and the slice it hands to
\* Unmarshal starts at index packet[2] + 3
C9_PushOffsetIsInteger ==
  (gen.fam = "push" /\ pc # "push") =>
    IF Len(push) < 6 \/ push[2] # 6 \/ push[3] + 3 >= Len(push)
    THEN pc = "done" /\ returned = "err" /\ err = invalidPacket
    ELSE packet = SubSeq(push, push[3] + 4, Len(push))

\* C10: decodeVarUint on the encoding of an integer v below 2^35 succeeds
\* and returns v
C10_VarUintRoundTrip ==
  (gen.fam = "varuint" /\ pc = "done") => (vu.ok /\ vu.v = gen.v)

\* bs without its leading zero bytes
RECURSIVE StripZeros(_)
StripZeros(bs) ==
  IF bs # <<>> /\ Head(bs) = 0 THEN StripZeros(Tail(bs)) ELSE bs

\* the four bytes of a uint32, most significant first
BytesOfU32(u) == <<u[1] \div 256, u[1] % 256, u[2] \div 256, u[2] % 256>>

\* C11: a long integer of length byte n in 0..8 followed by n bytes decodes
\* to the unsigned integer those bytes form, most significant first, and is
\* what Date, MessageSize, DeliveryTime and Expiry carry; a length byte of
\* 9..30 fails as unsupported and one above 30 as invalid
C11_LongIntBigEndian ==
  (gen.fam = "longint" /\ pc = "done") =>
    IF gen.n <= 8
    THEN /\ returned = "msg" /\ Len(msg.Header) = 1
         /\ msg.Header[1].f = gen.f
         /\ StripZeros(BytesOfU32(msg.Header[1].v.b)) = StripZeros(gen.arg)
    ELSE /\ returned = "err"
         /\ err = IF gen.n <= 30 THEN "unsupported long int" ELSE "invalid long int"

\* C12: an encoded string whose first byte is 32 or more is decoded as the
\* text string it is: the value stored for Subject, To, Cc, Bcc, ResponseText
\* and From is the bytes after the optional quote up to, and without, the
\* terminating zero byte
C12_PlainEncodedStringIsText ==
  (gen.fam = "text" /\ pc = "done") =>
    /\ returned = "msg" /\ Len(msg.Header) = 1
    /\ msg.Header[1].f = gen.f
    /\ msg.Header[1].v = Txt(gen.arg)

\* C13: a constrained media whose first byte is below 127 is the text up to,
\* and without, the terminating zero byte; otherwise it is the entry of the
\* table of well-known content types at the short integer, and an index
\* outside the table is an error; a Charset parameter given as a text has that
\* text as its value
C13_ConstrainedMediaText ==
  (gen.fam = "media" /\ pc = "done") =>
    CASE gen.tail = "text" ->
           /\ returned = "msg" /\ Len(msg.Header) = 1
           /\ msg.Header[1].v = Txt(gen.arg)
      [] gen.tail = "index" ->
           IF gen.n < Len(contentTypes)
           THEN /\ returned = "msg" /\ Len(msg.Header) = 1
                /\ msg.Header[1].v.t = contentTypes[gen.n + 1]
           ELSE returned = "err" /\ err = "unknown short content type"
      [] OTHER ->
           /\ returned = "msg"
           /\ MapHas(out, CharsetParam)
           /\ MapGet(out, CharsetParam) = Txt(gen.arg)

\* C14: a field whose value starts with a malformed value length, a byte
\* above 31 or the length-quote before an unterminated or truncated varUint,
\* makes Unmarshal return an error and no Message, for DeliveryTime and
\* Expiry as for every other field that reads a value length
C14_BadValueLengthFails ==
  (gen.fam = "vlen" /\ pc = "done") => (returned = "err" /\ msg = NoMessage)

\* the first part of a whole body has bytes in its header block after the
\* content type
TrailingAfterContentType ==
  /\ gen.fam = "body" /\ gen.cut = 0 /\ Len(gen.parts) >= 1
  /\ PartMenu[gen.parts[1]].kind \in {"location", "pair", "disposition", "unknown"}

\* C15: the body decoder fails with the pending part headers error whenever
\* the content type of a part leaves bytes of the header block unconsumed, so
\* that it never goes on to the part headers with bytes left, and it fails
\* with that error only then
C15_PendingIffTrailingBytes ==
  /\ pc = "phdr" => hpos = Len(headerBuf)
  /\ (pc = "done" /\ err = "pending part headers") => hpos < Len(headerBuf)
  /\ (TrailingAfterContentType /\ pc = "done") =>
       (returned = "err" /\ err = "pending part headers")

\* the step that decodes the length-delimited value of the input
DecodesDelimited ==
  /\ gen.fam = "delimited"
  /\ \/ gen.tail = "header" /\ pc = "header" /\ pos = 0
     \/ gen.tail = "part" /\ pc = "phdr" /\ hpos = 1

\* a step leaves the parent cursor right after the declared bytes of the
\* value, and a step of a sub-decoder leaves the cursors of its parents alone
C16_Frame ==
  /\ (DecodesDelimited /\ gen.tail = "header") => pos' = gen.n
  /\ (DecodesDelimited /\ gen.tail = "part") => hpos' = gen.n
  /\ pc = "params" => (pos' = pos /\ hpos' = hpos)
  /\ pc = "phdr" => pos' >= pos

\* C16: decoding a length-delimited value through a sub-decoder (From, the
\* general form of a content type, the value-length form of an encoded
\* string, Content-Disposition) moves the parent cursor past the length
\* prefix and the declared bytes exactly, whatever the sub-decoder consumed,
\* left over or lacked, and the sub-decoder never moves the parent cursor
C16_SubDecoderFrame == [][C16_Frame]_vars

\* C17: a parameter that decodeContentTypeParams has no case for is skipped
\* with its value: the block decodes without an error, and the map holds
\* exactly what the block holds without such parameters, no entry more and
\* no value changed
C17_OtherParamsSkipped ==
  (gen.fam = "params" /\ pc = "done") =>
    /\ returned = "msg"
    /\ out = decodeContentTypeParams(gen.arg, 0, {}).v

====
